---- MODULE Spec2Model ----
(***************************************************************************)
(* Model of the stackfish OpenAI/Codex credential lifecycle and gateway:   *)
(*   www/app/services/openaiOAuth.ts  (authorization session, listener,    *)
(*                                     credential store and accessor)      *)
(*   the llm gateway module           (fallback chain and retry loop)      *)
(*                                                                         *)
(* One action is one macrotask of the Node event loop: a handler runs up   *)
(* to its next await on the network, the file system or a timer.           *)
(***************************************************************************)
EXTENDS Integers, Sequences, FiniteSets, Bags, TLC

\* ------------------------------------------------------------------------
\* Bounds of the model
\* ------------------------------------------------------------------------
MaxStarts == 2      \* Start calls in one behaviour (session ids 1..MaxStarts)
MaxCalls == 1       \* handleCallback invocations in flight at once
MaxTicks == 1       \* clock advances in one behaviour

\* ------------------------------------------------------------------------
\* Program constants
\* ------------------------------------------------------------------------
OAUTH_TIMEOUT_MS == 5 * 60 * 1000
DefaultExpiresIn == 3600
MaxAttempts == 3
FixedModels == <<"gpt-5.3-codex", "gpt-5.2-codex", "gpt-5.1-codex",
                 "gpt-5.1-codex-mini", "gpt-5.1-codex-max">>

\* The clock advances in steps of one authorization deadline.
TickMs == OAUTH_TIMEOUT_MS
Epoch == 2 * TickMs
MaxNow == Epoch + MaxTicks * TickMs

\* ------------------------------------------------------------------------
\* Values
\* ------------------------------------------------------------------------
Undefined == "undefined"
NoPending == [state |-> 0, pkce |-> 0, timeout |-> 0]
NoAuth == [type |-> Undefined, access |-> "", refresh |-> "", expires |-> 0, accountId |-> Undefined]

MsgMissingCode == "Missing authorization code"
MsgInvalidState == "Invalid state - potential CSRF attack"
MsgCancelled == "Login cancelled"
MsgTimeout == "OAuth callback timeout - authorization took too long"
MsgFetchFailed == "fetch failed"
MsgWriteFailed == "EACCES: permission denied"
MsgExchangeFailed(status) == IF status = 400 THEN "Token exchange failed: 400"
                             ELSE "Token exchange failed: <status>"

\* Redirect parameters; "" is a parameter that is absent or empty.
ErrorParams == {"", "access_denied"}
ErrorDescriptions == {"", "User denied access"}
CodeParams == {"", "authcode"}
StateParams == 0..MaxStarts

\* Responses of the issuer's token endpoint: TokenResponse, or a failure
\* (status 0: fetch itself failed; 400: a response that is not ok).
\* idAcct / accessAcct are the account identifiers decodable from the claims
\* of id_token / access_token (Undefined: malformed token or no such claim).
TokenResponses ==
    { [ok |-> TRUE, status |-> 200, access_token |-> "at-new", refresh_token |-> "rt-new",
       idAcct |-> a, accessAcct |-> Undefined, expires_in |-> e]
        : a \in {"acct-1"}, e \in {0, DefaultExpiresIn} }
RefreshResponses ==
    { [ok |-> TRUE, status |-> 200, access_token |-> "at-new", refresh_token |-> "rt-new",
       idAcct |-> a, accessAcct |-> b, expires_in |-> e]
        : a \in {Undefined, "acct-1"}, b \in {Undefined, "acct-2"}, e \in {0, 300} }
TokenFailures ==
    { [ok |-> FALSE, status |-> s, access_token |-> "", refresh_token |-> "",
       idAcct |-> Undefined, accessAcct |-> Undefined, expires_in |-> 0] : s \in {0, 400} }

\* Credential records found on storage when a gateway call starts.
StoredAuth(access, expires, accountId) ==
    [type |-> "oauth", access |-> access, refresh |-> "rt-old", expires |-> expires,
     accountId |-> accountId]

\* Models a caller requests (other than the two served by another provider),
\* and the HTTP status of a completion response (0: the request or the read of
\* the stream failed without a status).
RequestedModels == {"gpt-5.1-codex", "gpt-4.1"}
CodexStatuses == {0, 200, 400, 401, 429, 500, 503}

\* An error thrown inside llm; `of`: the number of the completion request
\* whose failure it is (0: it is not the failure of a completion request).
NoError == [status |-> 0, message |-> "", of |-> 0]
MsgNotConnected == "OpenAI OAuth is not connected. Connect ChatGPT subscription to use Codex models."
MsgCodexError == "<status> <body>"
MsgRefreshFailed(status) == IF status = 400 THEN "Token refresh failed: 400"
                            ELSE "Token refresh failed: <status>"
NoSend == [n |-> 0, candidate |-> "", attempt |-> 0, at |-> 0, expires |-> 0]
GwIdle == [pc |-> "idle", model |-> "", auth |-> NoAuth, cand |-> 0, attempt |-> 0,
           lastError |-> NoError, result |-> <<>>, error |-> NoError]

\* ------------------------------------------------------------------------
\* The event stream of a completion response
\* ------------------------------------------------------------------------
\* A body is a sequence of bytes. Every byte stands for itself as a character
\* except the two bytes of one two-byte UTF-8 character. The text "data:" and
\* the pieces of a JSON payload are single symbols: the prefix of the first
\* member(s) of an event object ("{delta:" is {"type":
\* "response.output_text.delta","delta": and so on), a string literal, and
\* the closing brace.
NL == "LF"
SP == " "
Lead == "0xC3"
Cont == "0xA9"
EAcute == "e-acute"
Replacement == "U+FFFD"
DataPrefix == "data:"
DoneMarker == "[DONE]"
OpenDelta == "{delta:"
OpenDone == "{done:"
OpenCompleted == "{completed:"
Close == "}"
OtherEvent == "{}"
EmptyLiteral == "''"
StringLiterals == {"Hel", "lo", "Hello", "a", "b", "ab", "R", "X", EmptyLiteral, EAcute}

\* The characters of a string literal.
TextOf(lit) ==
    CASE lit = "Hel" -> <<"H", "e", "l">>
      [] lit = "lo" -> <<"l", "o">>
      [] lit = "Hello" -> <<"H", "e", "l", "l", "o">>
      [] lit = "ab" -> <<"a", "b">>
      [] lit = EmptyLiteral -> <<>>
      [] OTHER -> <<lit>>

Sep == <<NL, NL>>
DataBlock(open, lit) == <<DataPrefix, SP, open, lit, Close>>
HelloBody ==
    DataBlock(OpenDelta, "Hel") \o Sep \o DataBlock(OpenDelta, "lo") \o Sep
      \o <<DataPrefix, SP, DoneMarker>> \o Sep
TinyBody == <<DataPrefix, OpenDelta, "a", Close>> \o Sep

\* Response bodies the completion endpoint may send.
Bodies ==
    { <<>>,
      HelloBody,
      TinyBody,
      \* deltas, then the done event with the full text
      DataBlock(OpenDelta, "a") \o Sep \o DataBlock(OpenDelta, "b") \o Sep
        \o DataBlock(OpenDone, "ab") \o Sep,
      \* the done event comes first, a delta follows
      DataBlock(OpenDone, "Hello") \o Sep \o DataBlock(OpenDelta, "lo") \o Sep,
      \* a response-level output text comes first, a delta and a done event follow
      DataBlock(OpenCompleted, "R") \o Sep \o DataBlock(OpenDelta, "a") \o Sep
        \o DataBlock(OpenDone, "X") \o Sep,
      \* an empty delta, the done event, a delta
      DataBlock(OpenDelta, EmptyLiteral) \o Sep \o DataBlock(OpenDone, "X") \o Sep
        \o DataBlock(OpenDelta, "b") \o Sep,
      \* an event: line before the data line; a payload over two data lines
      <<"event:", SP, "x", NL>> \o DataBlock(OpenDelta, "a") \o Sep
        \o <<DataPrefix, OpenDelta, NL, DataPrefix, SP, "b", Close, SP>> \o Sep,
      \* a payload that is not JSON, a block without data line, an empty
      \* payload, an event of another type
      <<DataPrefix, OpenDelta, "a">> \o Sep \o <<":", "x">> \o Sep \o <<DataPrefix, SP>> \o Sep
        \o <<DataPrefix, OtherEvent>> \o Sep \o DataBlock(OpenDelta, "b") \o Sep,
      \* a payload that is not JSON between two deltas, and one over two data lines
      DataBlock(OpenDelta, "Hel") \o Sep \o <<DataPrefix, SP, OpenDelta, "X">> \o Sep
        \o DataBlock(OpenDelta, "lo") \o Sep
        \o <<DataPrefix, Close, NL, DataPrefix, OpenDone, "X">> \o Sep,
      \* three newlines in a row; the last block is not terminated
      DataBlock(OpenDelta, "a") \o Sep \o <<NL>> \o DataBlock(OpenDelta, "b") \o Sep
        \o DataBlock(OpenDelta, "X"),
      \* a two-byte character; the body ends inside another one
      <<DataPrefix, OpenDelta, Lead, Cont, Close>> \o Sep \o <<DataPrefix, Lead>> }

\* Bodies answered to the gateway's own requests.
GatewayBodies == {TinyBody}

\* The locals of one callCodex read loop. body, cuts and events are history:
\* the whole body, the recorded kinds of place where a chunk has ended so
\* far, and the events decoded so far.
SseIdle == [pc |-> "idle", body |-> <<>>, rest |-> <<>>, carry |-> <<>>, buffer |-> <<>>,
            output |-> <<>>, events |-> <<>>, cuts |-> {}]
SseStart(body) == [SseIdle EXCEPT !.pc = "reading", !.body = body, !.rest = body]

VARIABLES
    gw,           \* the gateway call (llm) in progress and where it is suspended
    lastSend,     \* history: the latest completion request sent by this call
    sse,          \* the read loop of the callCodex in progress
    server,       \* `server`: "undefined" | "listening" | "notListening"
    pending,      \* `pending`: NoPending or the recorded session
    oauthState,   \* `oauthState`: [status, error]
    timers,       \* armed setTimeout handles: set of [id, due]
    calls,        \* handleCallback invocations suspended at an await
    logouts,      \* TRUE: some clearOpenAIAuth calls are suspended after their unlink
    authFile,     \* content of .stackfish/auth.json (NoAuth: no readable record)
    now,          \* Date.now()
    nextId,       \* next fresh PKCE/state/timer identity
    last,         \* history: the operation of the latest step and its input
    outcome       \* history: per session, the first terminal status its events set

oauthVars == <<server, pending, oauthState, timers, calls, logouts, nextId,
               last, outcome>>
storeVars == <<authFile, now>>
gwVars == <<gw, lastSend, sse>>
vars == <<oauthVars, storeVars, gwVars>>

\* ------------------------------------------------------------------------
\* Helpers of openaiOAuth.ts
\* ------------------------------------------------------------------------
Idle == [status |-> "idle", error |-> Undefined]
Pending == [status |-> "pending", error |-> Undefined]
Success == [status |-> "success", error |-> Undefined]
ErrorState(message) == [status |-> "error", error |-> message]

\* extractAccountId: the id_token's account id, else the access_token's.
extractAccountId(tokens) ==
    IF tokens.idAcct # Undefined THEN tokens.idAcct ELSE tokens.accessAcct

\* expires_in ?? 3600 (0 stands for an absent expires_in)
ExpiresInOf(tokens) == IF tokens.expires_in = 0 THEN DefaultExpiresIn ELSE tokens.expires_in

\* The OpenAIAuth record handleCallback builds from a token response.
AuthFromTokens(tokens, t) ==
    [type |-> "oauth", access |-> tokens.access_token, refresh |-> tokens.refresh_token,
     expires |-> t + ExpiresInOf(tokens) * 1000, accountId |-> extractAccountId(tokens)]

\* Mutant: clearPending forgets clearTimeout.
clearPendingTimersKeep(p, ts) == ts

\* clearPending: clearTimeout(pending.timeout) when a session is recorded.
clearPendingTimers(p, ts) ==
    IF p # NoPending THEN {t \in ts : t.id # p.timeout} ELSE ts

\* Mutant: clearPending leaves the session reference set.
clearPendingKeep(p) == p

\* clearPending: the session reference afterwards.
clearPending(p) == NoPending

\* Mutant: the redirect's state is not compared with the session's.
stateMismatchLax(p, state) == p = NoPending

\* handleCallback's test of the redirect's state against the recorded session.
stateMismatch(p, state) == p = NoPending \/ state # p.state

\* Mutant: stopOAuthServer leaves the listener running.
stopOAuthServerKeep(s) == s

\* stopOAuthServer: close and forget the server, no-op when there is none.
stopOAuthServer(s) == IF s = "undefined" THEN s ELSE "undefined"

\* Mutant: Start arms no deadline timer.
armTimeoutNone(ts, id, t) == ts

\* setTimeout(..., OAUTH_TIMEOUT_MS)
armTimeout(ts, id, t) == ts \cup {[id |-> id, due |-> t + OAUTH_TIMEOUT_MS]}

\* The suspended handleCallback invocations form a bag of
\* [pc, sess, pkce, auth]: pc is the await the invocation is suspended at.
Single(c) == SetToBag({c})
InFlight(s) == \E c \in BagToSet(calls) : c.sess = s

\* op: the operation; err, code: the redirect's parameters; state: the
\* redirect's state parameter, or the session a timer or completion belongs
\* to; exch: the step issued a token exchange call; term: the step assigned
\* the status success or error.
Op(op, err, code, state, exch, term) ==
    [op |-> op, err |-> err, code |-> code, state |-> state, exch |-> exch, term |-> term]

\* A step of session s that sets the status to `st`: the status is assigned,
\* the session cleared, the listener stopped.
Terminate(st, s) ==
    /\ oauthState' = st
    /\ timers' = clearPendingTimers(pending, timers)
    /\ pending' = clearPending(pending)
    /\ server' = stopOAuthServer(server)
    /\ outcome' = IF s \in DOMAIN outcome /\ outcome[s] = "none"
                  THEN [outcome EXCEPT ![s] = st.status] ELSE outcome

Init ==
    /\ server = "undefined"
    /\ pending = NoPending
    /\ oauthState = Idle
    /\ timers = {}
    /\ calls = EmptyBag
    /\ logouts = FALSE
    /\ authFile = NoAuth
    /\ now = Epoch
    /\ nextId = 1
    /\ last = Op("init", "", "", 0, FALSE, FALSE)
    /\ outcome = [s \in 1..MaxStarts |-> "none"]
    /\ gw = GwIdle
    /\ lastSend = NoSend
    /\ sse = SseIdle

\* ------------------------------------------------------------------------
\* startOpenAIAuthorize
\* ------------------------------------------------------------------------
\* startOAuthServer fails to bind the port: the call throws, `server` stays set.
StartListenFails ==
    /\ server = "undefined"
    /\ server' = "notListening"
    /\ last' = Op("startFailed", "", "", 0, FALSE, FALSE)
    /\ UNCHANGED <<pending, oauthState, timers, calls, logouts, nextId,
                   outcome, storeVars, gwVars>>

Start ==
    /\ nextId <= MaxStarts
    /\ now < MaxNow
    /\ server' = IF server = "undefined" THEN "listening" ELSE server
    /\ timers' = armTimeout(clearPendingTimers(pending, timers), nextId, now)
    /\ pending' = [state |-> nextId, pkce |-> nextId, timeout |-> nextId]
    /\ oauthState' = Pending
    /\ nextId' = nextId + 1
    /\ last' = Op("start", "", "", 0, FALSE, FALSE)
    /\ UNCHANGED <<calls, logouts, outcome, storeVars, gwVars>>

\* The deadline timer of a session fires: the callback armed by Start runs.
TimerFire ==
    \E t \in timers :
        /\ now >= t.due
        /\ last' = Op("timer", "", "", t.id, FALSE, TRUE)
        /\ oauthState' = ErrorState(MsgTimeout)
        /\ timers' = clearPendingTimers(pending, timers \ {t})
        /\ pending' = clearPending(pending)
        /\ server' = stopOAuthServer(server)
        /\ outcome' = IF outcome[t.id] = "none"
                      THEN [outcome EXCEPT ![t.id] = "error"] ELSE outcome
        /\ UNCHANGED <<calls, logouts, nextId, storeVars, gwVars>>

\* ------------------------------------------------------------------------
\* The callback listener: GET /auth/callback and GET /cancel
\* ------------------------------------------------------------------------
handleCallback(error, errorDescription, code, state) ==
    /\ server = "listening"
    /\ IF error # ""
       THEN /\ Terminate(ErrorState(IF errorDescription # "" THEN errorDescription ELSE error),
                         pending.state)
            /\ last' = Op("callback", error, code, state, FALSE, TRUE)
            /\ UNCHANGED calls
       ELSE IF code = ""
       THEN /\ Terminate(ErrorState(MsgMissingCode), pending.state)
            /\ last' = Op("callback", error, code, state, FALSE, TRUE)
            /\ UNCHANGED calls
       ELSE IF stateMismatch(pending, state)
       THEN /\ Terminate(ErrorState(MsgInvalidState), pending.state)
            /\ last' = Op("callback", error, code, state, FALSE, TRUE)
            /\ UNCHANGED calls
       ELSE /\ BagCardinality(calls) < MaxCalls
            /\ calls' = calls (+) Single([pc |-> "exchange", sess |-> pending.state,
                                          pkce |-> pending.pkce, auth |-> NoAuth])
            /\ last' = Op("callback", error, code, state, TRUE, FALSE)
            /\ UNCHANGED <<server, pending, oauthState, timers, outcome>>
    /\ UNCHANGED <<logouts, nextId, storeVars, gwVars>>

\* exchangeCodeForTokens returns or throws.
ExchangeDone(c, resp) ==
    /\ BagIn(c, calls)
    /\ c.pc = "exchange"
    /\ last' = Op("exchanged", "", "", c.sess, FALSE, ~resp.ok)
    /\ IF resp.ok
       THEN /\ calls' = (calls (-) Single(c))
                          (+) Single([c EXCEPT !.pc = "write", !.auth = AuthFromTokens(resp, now)])
            /\ UNCHANGED <<server, pending, oauthState, timers, outcome>>
       ELSE /\ calls' = calls (-) Single(c)
            /\ Terminate(ErrorState(IF resp.status = 0 THEN MsgFetchFailed
                                    ELSE MsgExchangeFailed(resp.status)), c.sess)
    /\ UNCHANGED <<logouts, nextId, storeVars, gwVars>>

\* writeAuth returns: the record is on disk, the status becomes success.
WriteDone(c) ==
    /\ BagIn(c, calls)
    /\ c.pc = "write"
    /\ last' = Op("written", "", "", c.sess, FALSE, TRUE)
    /\ authFile' = c.auth
    /\ calls' = calls (-) Single(c)
    /\ Terminate(Success, c.sess)
    /\ UNCHANGED <<logouts, nextId, now, gwVars>>

\* writeAuth throws: mkdir failed (file untouched) or writeFile failed after
\* truncating the file (no readable record is left).
WriteFails(c, truncated) ==
    /\ BagIn(c, calls)
    /\ c.pc = "write"
    /\ last' = Op("writeFailed", "", "", c.sess, FALSE, TRUE)
    /\ authFile' = IF truncated THEN NoAuth ELSE authFile
    /\ calls' = calls (-) Single(c)
    /\ Terminate(ErrorState(MsgWriteFailed), c.sess)
    /\ UNCHANGED <<logouts, nextId, now, gwVars>>

handleCancel ==
    /\ server = "listening"
    /\ last' = Op("cancel", "", "", 0, FALSE, TRUE)
    /\ Terminate(ErrorState(MsgCancelled), pending.state)
    /\ UNCHANGED <<calls, logouts, nextId, storeVars, gwVars>>

\* ------------------------------------------------------------------------
\* clearOpenAIAuth (POST /api/openai/logout)
\* ------------------------------------------------------------------------
\* fs.unlink of a call settles: the file is removed, or unlink threw and the
\* error is swallowed. Any number of calls may be in flight.
ClearUnlink(removed) ==
    /\ logouts' = TRUE
    /\ authFile' = IF removed THEN NoAuth ELSE authFile
    /\ last' = Op("unlink", "", "", 0, FALSE, FALSE)
    /\ UNCHANGED <<server, pending, oauthState, timers, calls, nextId,
                   outcome, now, gwVars>>

\* Mutant: disconnect also drops the session and stops the listener.
ClearFinishTearsDown(more) ==
    /\ logouts
    /\ logouts' = more
    /\ oauthState' = Idle
    /\ timers' = clearPendingTimers(pending, timers)
    /\ pending' = clearPending(pending)
    /\ server' = stopOAuthServer(server)
    /\ last' = Op("disconnect", "", "", 0, FALSE, FALSE)
    /\ UNCHANGED <<calls, nextId, outcome, storeVars, gwVars>>

\* One suspended call resumes and sets the status idle; `more`: others remain.
ClearFinish(more) ==
    /\ logouts
    /\ logouts' = more
    /\ oauthState' = Idle
    /\ last' = Op("disconnect", "", "", 0, FALSE, FALSE)
    /\ UNCHANGED <<server, pending, timers, calls, nextId,
                   outcome, storeVars, gwVars>>

\* ------------------------------------------------------------------------
\* Time
\* ------------------------------------------------------------------------
Tick ==
    /\ now < MaxNow
    /\ now' = now + TickMs
    /\ last' = Op("tick", "", "", 0, FALSE, FALSE)
    /\ UNCHANGED <<server, pending, oauthState, timers, calls, logouts, nextId,
                   outcome, authFile, gwVars>>

\* ------------------------------------------------------------------------
\* The credential accessor (ensureOpenAIAuth) and the gateway (llm)
\* ------------------------------------------------------------------------
\* readAuth: the stored record when it has the recognised shape.
readAuth(file) ==
    IF file.type = "oauth" /\ file.access # "" /\ file.refresh # "" /\ file.expires # 0
    THEN file ELSE NoAuth

\* Mutant: the gateway goes on without a credential.
notConnectedNever(auth) == FALSE

\* `if (!auth)` in ensureOpenAIAuth and in llm: there is no credential.
notConnected(auth) == auth = NoAuth

\* ensureOpenAIAuth's test: the credential must be refreshed before use.
needsRefresh(auth, t) == auth.access = "" \/ auth.expires < t

\* Mutant: a refresh keeps the stored refresh token (a partial update).
RefreshedAuthKeepsRefresh(tokens, auth, t) ==
    [type |-> "oauth", access |-> tokens.access_token, refresh |-> auth.refresh,
     expires |-> t + ExpiresInOf(tokens) * 1000,
     accountId |-> IF extractAccountId(tokens) # Undefined THEN extractAccountId(tokens)
                   ELSE auth.accountId]

\* The record ensureOpenAIAuth builds from a refresh response.
RefreshedAuth(tokens, auth, t) ==
    [type |-> "oauth", access |-> tokens.access_token, refresh |-> tokens.refresh_token,
     expires |-> t + ExpiresInOf(tokens) * 1000,
     accountId |-> IF extractAccountId(tokens) # Undefined THEN extractAccountId(tokens)
                   ELSE auth.accountId]

\* Mutant: the chain keeps its duplicates.
DedupNone(xs) == xs

\* Array.from(new Set(xs)): duplicates removed, first occurrences kept in order.
RECURSIVE DedupFrom(_, _)
DedupFrom(xs, acc) ==
    IF xs = <<>> THEN acc
    ELSE DedupFrom(Tail(xs),
                   IF \E j \in 1..Len(acc) : acc[j] = Head(xs) THEN acc
                   ELSE Append(acc, Head(xs)))
Dedup(xs) == DedupFrom(xs, <<>>)

fallbackModels(model) == Dedup(<<model>> \o FixedModels)

\* Mutant: every failure with a status is retried or passed over.
FatalNever(status) == FALSE

\* Mutant: a 400 is retried like a transient failure.
AfterFailureRetries400(status, attempt) ==
    IF status # 0 /\ status \notin {400, 429, 500, 503} THEN "throw"
    ELSE IF attempt + 1 < MaxAttempts THEN "retry"
    ELSE "nextCandidate"

\* Mutant: a transient failure moves on to the next candidate at once.
AfterFailureNoRetry(status, attempt) ==
    IF status # 0 /\ status \notin {400, 429, 500, 503} THEN "throw" ELSE "nextCandidate"

\* Mutant: a candidate gets one attempt more.
AfterFailureOneMore(status, attempt) ==
    IF status # 0 /\ status \notin {400, 429, 500, 503} THEN "throw"
    ELSE IF status = 400 THEN "nextCandidate"
    ELSE IF attempt < MaxAttempts THEN "retry"
    ELSE "nextCandidate"

\* The catch block of the retry loop: what the loop does after an attempt
\* failed with `status` (0: the error carries no status).
Fatal(status) == status # 0 /\ status \notin {400, 429, 500, 503}
AfterFailure(status, attempt) ==
    IF Fatal(status) THEN "throw"
    ELSE IF status = 400 THEN "nextCandidate"
    ELSE IF attempt + 1 < MaxAttempts THEN "retry"
    ELSE "nextCandidate"

\* ------------------------------------------------------------------------
\* callCodex: the read loop
\* ------------------------------------------------------------------------
\* decoder.decode(value, {stream: true}): the characters of the bytes, an
\* incomplete character at the end held back for the next call.
RECURSIVE Utf8DecodeFrom(_, _)
Utf8DecodeFrom(bytes, acc) ==
    IF bytes = <<>> THEN [chars |-> acc, carry |-> <<>>]
    ELSE IF Head(bytes) = Lead
    THEN IF Len(bytes) = 1 THEN [chars |-> acc, carry |-> bytes]
         ELSE IF bytes[2] = Cont
         THEN Utf8DecodeFrom(SubSeq(bytes, 3, Len(bytes)), Append(acc, EAcute))
         ELSE Utf8DecodeFrom(Tail(bytes), Append(acc, Replacement))
    ELSE IF Head(bytes) = Cont
    THEN Utf8DecodeFrom(Tail(bytes), Append(acc, Replacement))
    ELSE Utf8DecodeFrom(Tail(bytes), Append(acc, Head(bytes)))
Utf8Decode(carry, bytes) == Utf8DecodeFrom(carry \o bytes, <<>>)

\* String.prototype.split on a separator of n newlines.
RECURSIVE SplitFrom(_, _, _, _)
SplitFrom(text, n, cur, acc) ==
    IF text = <<>> THEN Append(acc, cur)
    ELSE IF Len(text) >= n /\ \A i \in 1..n : text[i] = NL
    THEN SplitFrom(SubSeq(text, n + 1, Len(text)), n, <<>>, Append(acc, cur))
    ELSE SplitFrom(Tail(text), n, Append(cur, Head(text)), acc)
Split(text, n) == SplitFrom(text, n, <<>>, <<>>)

\* String.prototype.trim
RECURSIVE TrimStart(_)
TrimStart(text) == IF text # <<>> /\ Head(text) = SP THEN TrimStart(Tail(text)) ELSE text
RECURSIVE TrimEnd(_)
TrimEnd(text) ==
    IF text # <<>> /\ text[Len(text)] = SP THEN TrimEnd(SubSeq(text, 1, Len(text) - 1)) ELSE text
Trim(text) == TrimEnd(TrimStart(text))

\* Array.prototype.join("\n")
RECURSIVE Join(_)
Join(texts) ==
    IF texts = <<>> THEN <<>>
    ELSE IF Len(texts) = 1 THEN texts[1]
    ELSE texts[1] \o <<NL>> \o Join(Tail(texts))

\* The payload of a block: its data lines without the prefix, trimmed, joined.
dataLines(part) == SelectSeq(Split(part, 1), LAMBDA line : line # <<>> /\ Head(line) = DataPrefix)
dataOf(part) == Join([i \in 1..Len(dataLines(part)) |-> Trim(Tail(dataLines(part)[i]))])

\* JSON.parse(data): white space between the pieces is insignificant. A field
\* the event does not have is the empty text: an absent field and an empty
\* string fail or pass the tests of the accumulation alike.
ParseError == [ok |-> FALSE, type |-> "", delta |-> <<>>, text |-> <<>>, output_text |-> <<>>]
ParseJson(data) ==
    LET t == SelectSeq(data, LAMBDA x : x \notin {SP, NL}) IN
      IF t = <<OtherEvent>> THEN [ParseError EXCEPT !.ok = TRUE, !.type = "other"]
      ELSE IF Len(t) = 3 /\ t[1] \in {OpenDelta, OpenDone, OpenCompleted}
                /\ t[2] \in StringLiterals /\ t[3] = Close
      THEN CASE t[1] = OpenDelta ->
                  [ParseError EXCEPT !.ok = TRUE, !.type = "response.output_text.delta",
                                     !.delta = TextOf(t[2])]
             [] t[1] = OpenDone ->
                  [ParseError EXCEPT !.ok = TRUE, !.type = "response.output_text.done",
                                     !.text = TextOf(t[2])]
             [] OTHER ->
                  [ParseError EXCEPT !.ok = TRUE, !.type = "response.completed",
                                     !.output_text = TextOf(t[2])]
      ELSE ParseError

\* Mutant: the done event's text replaces what was accumulated.
applyEventDoneWins(output, event) ==
    IF event.type = "response.output_text.delta" THEN output \o event.delta
    ELSE IF event.type = "response.output_text.done" THEN event.text
    ELSE IF output = <<>> THEN event.output_text ELSE output

\* The three tests of the accumulation, in their order.
applyEvent(output, event) ==
    LET o1 == IF event.type = "response.output_text.delta" THEN output \o event.delta
              ELSE output
        o2 == IF o1 = <<>> /\ event.type = "response.output_text.done" THEN event.text ELSE o1
    IN  IF o2 = <<>> /\ event.output_text # <<>> THEN event.output_text ELSE o2

\* Mutant: a payload that is not JSON costs the text accumulated so far.
applyPartLosesOutput(st, part) ==
    LET data == dataOf(part)
        event == ParseJson(data)
    IN  IF dataLines(part) = <<>> \/ data = <<>> \/ data = <<DoneMarker>> THEN st
        ELSE IF ~event.ok THEN [st EXCEPT !.output = <<>>]
        ELSE [st EXCEPT !.output = applyEvent(st.output, event),
                        !.events = Append(st.events, event)]

\* The body of `for (const part of parts)`.
applyPart(st, part) ==
    LET data == dataOf(part)
        event == ParseJson(data)
    IN  IF dataLines(part) = <<>> \/ data = <<>> \/ data = <<DoneMarker>> \/ ~event.ok
        THEN st
        ELSE [st EXCEPT !.output = applyEvent(st.output, event),
                        !.events = Append(st.events, event)]

RECURSIVE applyParts(_, _)
applyParts(st, parts) ==
    IF parts = <<>> THEN st ELSE applyParts(applyPart(st, Head(parts)), Tail(parts))

\* Mutant: the unfinished block at the end of a chunk is dropped.
carryBufferNone(parts) == <<>>

\* buffer = parts.pop() || ''
carryBuffer(parts) == parts[Len(parts)]

\* One turn of the read loop on the chunk `value`.
ReadChunk(st, value) ==
    LET dec == Utf8Decode(st.carry, value)
        parts == Split(st.buffer \o dec.chars, 2)
    IN  applyParts([st EXCEPT !.carry = dec.carry, !.buffer = carryBuffer(parts)],
                   SubSeq(parts, 1, Len(parts) - 1))

\* A chunk that ends after byte a and before byte b ends inside a two-byte
\* character, or between the two newlines of a block separator, or elsewhere
\* (inside a line or at the end of one); the first two are recorded.
CutKinds(a, b) ==
    IF a = Lead THEN {"character"}
    ELSE IF a = NL /\ b = NL THEN {"separator"}
    ELSE {}

\* ------------------------------------------------------------------------
\* llm: the retry loop
\* ------------------------------------------------------------------------
\* callCodex(candidate, payload, auth) issues its fetch.
Send(g, cand, attempt) ==
    /\ gw' = [g EXCEPT !.pc = "attempt", !.cand = cand, !.attempt = attempt]
    /\ lastSend' = [n |-> lastSend.n + 1, candidate |-> fallbackModels(g.model)[cand],
                    attempt |-> attempt, at |-> now, expires |-> g.auth.expires]
    /\ sse' = SseIdle

Throw(g, err) ==
    /\ gw' = [g EXCEPT !.pc = "done", !.error = err]
    /\ sse' = SseIdle
    /\ UNCHANGED lastSend

\* Mutant: the decoded text is lost on the way out of llm.
ReturnNothing(g, output) ==
    /\ gw' = [g EXCEPT !.pc = "done", !.result = <<>>]
    /\ UNCHANGED lastSend

\* return await callCodex(...)
Return(g, output) ==
    /\ gw' = [g EXCEPT !.pc = "done", !.result = output]
    /\ UNCHANGED lastSend

\* The attempt in flight failed with `status` (0: an error without status).
Fail(status) ==
    LET err == [status |-> status, message |-> MsgCodexError, of |-> lastSend.n]
        g == [gw EXCEPT !.lastError = err]
        chain == fallbackModels(gw.model)
        step == AfterFailure(status, gw.attempt)
    IN  IF step = "throw" THEN Throw(g, err)
        ELSE IF step = "retry" THEN Send(g, gw.cand, gw.attempt + 1)
        ELSE IF gw.cand < Len(chain) THEN Send(g, gw.cand + 1, 0)
        ELSE Throw(g, err)

\* llm(messages, model) is called for a Codex-routed model.
GwCall(model) ==
    /\ gw.pc \in {"idle", "done"}
    /\ gw' = [GwIdle EXCEPT !.pc = "read", !.model = model]
    /\ lastSend' = NoSend
    /\ sse' = SseIdle
    /\ UNCHANGED <<oauthVars, storeVars>>

\* readAuth settles inside ensureOpenAIAuth; a usable credential goes straight
\* into the first attempt of the first candidate.
GwRead ==
    /\ gw.pc = "read"
    /\ LET auth == readAuth(authFile) IN
         IF notConnected(auth)
         THEN Throw(gw, [status |-> 0, message |-> MsgNotConnected, of |-> 0])
         ELSE IF needsRefresh(auth, now)
         THEN /\ gw' = [gw EXCEPT !.pc = "refresh", !.auth = auth]
              /\ UNCHANGED <<lastSend, sse>>
         ELSE Send([gw EXCEPT !.auth = auth], 1, 0)
    /\ UNCHANGED <<oauthVars, storeVars>>

\* refreshAccessToken returns or throws.
GwRefreshDone(resp) ==
    /\ gw.pc = "refresh"
    /\ IF resp.ok
       THEN /\ gw' = [gw EXCEPT !.pc = "write", !.auth = RefreshedAuth(resp, gw.auth, now)]
            /\ UNCHANGED <<lastSend, sse>>
       ELSE Throw(gw, [status |-> 0,
                       message |-> IF resp.status = 0 THEN MsgFetchFailed
                                   ELSE MsgRefreshFailed(resp.status),
                       of |-> 0])
    /\ UNCHANGED <<oauthVars, storeVars>>

\* writeAuth(updated) returns; ensureOpenAIAuth returns the updated record.
GwWriteDone ==
    /\ gw.pc = "write"
    /\ authFile' = gw.auth
    /\ Send(gw, 1, 0)
    /\ UNCHANGED <<oauthVars, now>>

GwWriteFails(truncated) ==
    /\ gw.pc = "write"
    /\ authFile' = IF truncated THEN NoAuth ELSE authFile
    /\ Throw(gw, [status |-> 0, message |-> MsgWriteFailed, of |-> 0])
    /\ UNCHANGED <<oauthVars, now>>

\* fetch settles: it rejected (status 0), or the response is not ok, or it
\* is ok without a body (callCodex returns ''), or it is ok and the read loop
\* starts on its body.
GwRespond(status, hasBody, body) ==
    /\ gw.pc = "attempt"
    /\ IF status # 200 THEN Fail(status)
       ELSE IF ~hasBody THEN Return(gw, <<>>) /\ UNCHANGED sse
       ELSE /\ gw' = [gw EXCEPT !.pc = "stream"]
            /\ sse' = SseStart(body)
            /\ UNCHANGED lastSend
    /\ UNCHANGED <<oauthVars, storeVars>>

\* reader.read() yields the next k bytes of the body.
SseRead(k) ==
    /\ sse.pc = "reading"
    /\ k \in 1..Len(sse.rest)
    /\ sse' = [ReadChunk(sse, SubSeq(sse.rest, 1, k)) EXCEPT
                 !.rest = SubSeq(sse.rest, k + 1, Len(sse.rest)),
                 !.cuts = IF k < Len(sse.rest)
                          THEN sse.cuts \cup CutKinds(sse.rest[k], sse.rest[k + 1])
                          ELSE sse.cuts]
    /\ UNCHANGED <<gw, lastSend, oauthVars, storeVars>>

\* reader.read() reports the end of the body: callCodex returns the output.
SseEnd ==
    /\ sse.pc = "reading"
    /\ sse.rest = <<>>
    /\ gw.pc = "stream"
    /\ sse' = [sse EXCEPT !.pc = "done"]
    /\ Return(gw, sse.output)
    /\ UNCHANGED <<oauthVars, storeVars>>

\* reader.read() rejects: callCodex throws an error without status.
SseFails ==
    /\ sse.pc = "reading"
    /\ gw.pc = "stream"
    /\ Fail(0)
    /\ UNCHANGED <<oauthVars, storeVars>>

Next ==
    \/ Start
    \/ StartListenFails
    \/ TimerFire
    \/ \E e \in ErrorParams, d \in ErrorDescriptions, c \in CodeParams, s \in StateParams :
          handleCallback(e, d, c, s)
    \/ \E c \in BagToSet(calls), r \in TokenResponses \cup TokenFailures : ExchangeDone(c, r)
    \/ \E c \in BagToSet(calls) : WriteDone(c)
    \/ \E c \in BagToSet(calls), tr \in BOOLEAN : WriteFails(c, tr)
    \/ handleCancel
    \/ \E r \in BOOLEAN : ClearUnlink(r)
    \/ \E more \in BOOLEAN : ClearFinish(more)
    \/ Tick

Spec == Init /\ [][Next]_vars

\* The event loop runs a timer that is due, and the clock does not stop.
FairSpec == Spec /\ WF_vars(Tick) /\ WF_vars(TimerFire)

\* The gateway on its own: a credential record is on storage (or none is),
\* and gateway calls run while the clock advances.
GatewayFiles ==
    {NoAuth}
    \cup {StoredAuth(a, e, "acct-0") : a \in {"at-old"}, e \in {Epoch - TickMs, Epoch, Epoch + TickMs}}
    \cup {StoredAuth("", Epoch + TickMs, "acct-0")}

GatewayInit ==
    /\ server = "undefined"
    /\ pending = NoPending
    /\ oauthState = Idle
    /\ timers = {}
    /\ calls = EmptyBag
    /\ logouts = FALSE
    /\ authFile \in GatewayFiles
    /\ now = Epoch
    /\ nextId = 1
    /\ last = Op("init", "", "", 0, FALSE, FALSE)
    /\ outcome = [s \in 1..MaxStarts |-> "none"]
    /\ gw = GwIdle
    /\ lastSend = NoSend
    /\ sse = SseIdle

GatewayNext ==
    \/ \E m \in RequestedModels : GwCall(m)
    \/ GwRead
    \/ \E r \in RefreshResponses \cup TokenFailures : GwRefreshDone(r)
    \/ GwWriteDone
    \/ \E tr \in BOOLEAN : GwWriteFails(tr)
    \/ \E st \in CodexStatuses \ {200} : GwRespond(st, FALSE, <<>>)
    \/ GwRespond(200, FALSE, <<>>)
    \/ \E b \in GatewayBodies : GwRespond(200, TRUE, b)
    \/ \E k \in 1..Len(sse.rest) : SseRead(k)
    \/ SseEnd
    \/ SseFails
    \/ Tick

GatewaySpec == GatewayInit /\ [][GatewayNext]_vars

\* The read loop on its own: the first request of a gateway call was answered
\* 200 with one of the bodies.
DecodeAuth == StoredAuth("at-old", Epoch + TickMs, "acct-0")
DecodeInit ==
    /\ server = "undefined"
    /\ pending = NoPending
    /\ oauthState = Idle
    /\ timers = {}
    /\ calls = EmptyBag
    /\ logouts = FALSE
    /\ authFile = DecodeAuth
    /\ now = Epoch
    /\ nextId = 1
    /\ last = Op("init", "", "", 0, FALSE, FALSE)
    /\ outcome = [s \in 1..MaxStarts |-> "none"]
    /\ gw = [GwIdle EXCEPT !.pc = "stream", !.model = "gpt-4.1", !.auth = DecodeAuth, !.cand = 1]
    /\ lastSend = [n |-> 1, candidate |-> "gpt-4.1", attempt |-> 0, at |-> Epoch,
                   expires |-> DecodeAuth.expires]
    /\ \E b \in Bodies : sse = SseStart(b)

DecodeNext ==
    \/ \E k \in 1..Len(sse.rest) : SseRead(k)
    \/ SseEnd

DecodeSpec == DecodeInit /\ [][DecodeNext]_vars

\* ========================================================================
\* Claims
\* ========================================================================
Status == oauthState.status
IsCallback == last'.op = "callback"

\* C1 (as stated): every redirect whose state differs from the pending
\* session's state ends with the invalid-state error and issues no token
\* exchange call.
C1_MismatchYieldsInvalidState ==
    [][(IsCallback /\ pending # NoPending /\ last'.state # pending.state)
         => (oauthState' = ErrorState(MsgInvalidState) /\ ~last'.exch /\ calls' = calls)]_vars

\* C1 (amended): a redirect whose state differs from the pending session's
\* state ends the attempt with status error and issues no token exchange
\* call; the error is the invalid-state message when the redirect carries no
\* error parameter and carries a code.
C1_MismatchNeverExchanges ==
    [][(IsCallback /\ pending # NoPending /\ last'.state # pending.state)
         => /\ ~last'.exch
            /\ calls' = calls
            /\ oauthState'.status = "error"
            /\ (last'.err = "" /\ last'.code # ""
                  => oauthState' = ErrorState(MsgInvalidState))]_vars

C1_Witness ==
    /\ last.op = "callback" /\ last.err = "" /\ last.code # "" /\ ~last.exch
    /\ oauthState = ErrorState(MsgInvalidState)

\* C2: at most one deadline timer is armed and it belongs to the recorded
\* session; a timer that fires is the one of the latest Start, never the one
\* of a superseded session.
C2_OneSessionOneTimer ==
    /\ Cardinality(timers) <= 1
    /\ \A t \in timers : pending # NoPending /\ t.id = pending.timeout
    /\ (last.op = "timer" => last.state = nextId - 1)

\* The second Start arrived while the first session was still pending.
C2_Witness ==
    /\ last.op = "start" /\ nextId = 3 /\ outcome[1] = "none"
    /\ pending.state = 2 /\ Cardinality(timers) = 1

\* C3: once an event of a session has set the status to success or error, no
\* later event of that session (its timer, its token exchange or its write
\* completing) changes the status again.
SessionEvent(s) ==
    last'.op \in {"timer", "exchanged", "written", "writeFailed"} /\ last'.state = s
C3_OneTerminalOutcome ==
    [][\A s \in 1..MaxStarts :
         (outcome[s] # "none" /\ SessionEvent(s)) => oauthState' = oauthState]_vars

\* C4: the flow writes the credential in exactly the steps that set the
\* status to success, and writes none for an attempt that ended in error.
C4_WriteOncePerSuccess ==
    [][/\ (last'.op = "written") <=> (last'.term /\ oauthState' = Success)
       /\ last'.op = "written" => authFile' # NoAuth /\ outcome[last'.state] # "error"
       /\ (last'.term /\ oauthState'.status = "error") => authFile' \in {authFile, NoAuth}]_vars

\* C5: Start followed by Cancel before any redirect of the session arrives
\* ends with status error and the message "Login cancelled", the listener
\* stopped, the session and its timer cleared, and no credential written.
C5_StartThenCancel ==
    [][(last'.op = "cancel" /\ pending # NoPending /\ ~InFlight(pending.state))
         => /\ oauthState' = ErrorState(MsgCancelled)
            /\ server' = "undefined"
            /\ pending' = NoPending
            /\ timers' = {}
            /\ authFile' = authFile
            /\ \A c \in BagToSet(calls') : c.sess # pending.state]_vars

C5_Witness ==
    /\ last.op = "cancel" /\ nextId = 2 /\ calls = EmptyBag
    /\ oauthState = ErrorState(MsgCancelled) /\ server = "undefined"

\* C6: a step that assigns the status success or error leaves no timer
\* armed, no session recorded and no listener, also when no session was
\* recorded before it.
C6_TerminalTearsDown ==
    last.term => /\ Status \in {"success", "error"}
                 /\ timers = {}
                 /\ pending = NoPending
                 /\ server = "undefined"

\* A cancel that arrived while a token exchange of the session was in flight.
C6_Witness ==
    /\ last.op = "cancel" /\ last.term /\ calls # EmptyBag
    /\ pending = NoPending /\ timers = {} /\ server = "undefined"

\* C7 (as stated): whenever the status is idle, success or error, the
\* listener is stopped.
C7_ListenerOnlyWhilePending ==
    Status \in {"idle", "success", "error"} => server # "listening"

\* C7 (amended): whenever the status is success or error the listener is
\* stopped, and the listener runs only while a session is recorded.
C7_ListenerOnlyWithSession ==
    /\ Status \in {"success", "error"} => server # "listening"
    /\ server = "listening" => pending # NoPending

C7_Witness ==
    /\ last.op = "timer" /\ Status = "error" /\ server = "undefined" /\ pending = NoPending

\* C8: the status enters success or error only from pending, enters pending
\* only through Start, and returns to idle only through disconnect.
C8_StatusMachine ==
    [][/\ (Status' \in {"success", "error"} /\ Status' # Status) => Status = "pending"
       /\ (Status' = "pending" /\ Status # "pending") => last'.op = "start"
       /\ (Status' = "idle" /\ Status # "idle") => last'.op = "disconnect"]_vars

\* C9: under fairness of the clock and of the deadline timer, a pending
\* status is eventually left, and the timer firing sets the timeout error.
C9_PendingEnds ==
    /\ (Status = "pending") ~> (Status # "pending")
    /\ [](last.op = "timer" => oauthState = ErrorState(MsgTimeout))

\* The timer of the only session fired with no redirect and no cancel.
C9_Witness ==
    /\ last.op = "timer" /\ nextId = 2 /\ calls = EmptyBag
    /\ outcome[1] = "error" /\ oauthState = ErrorState(MsgTimeout)

\* C10: no completion request is sent with a credential whose expiry time
\* has passed.
C10_NeverSendsExpired ==
    lastSend.n > 0 => ~(lastSend.expires < lastSend.at)

\* C11: when the refresh exchange fails, the stored record is left as it was,
\* the gateway call ends with the refresh's error, and neither a result nor a
\* completion request is produced from the stale credential; when the refresh
\* succeeds and is written, every token field of the stored record is the new
\* one and the record is the one the accessor returns.
RefreshFailed == gw.pc = "refresh" /\ gw'.pc = "done"
RefreshWritten == gw.pc = "write" /\ gw'.pc = "attempt"
C11_RefreshFailureKeepsRecord ==
    [][/\ RefreshFailed =>
            /\ authFile' = authFile
            /\ gw'.error.message \in {MsgRefreshFailed(400), MsgFetchFailed}
            /\ gw'.result = <<>>
            /\ lastSend'.n = 0
       /\ RefreshWritten =>
            /\ authFile'.type = "oauth"
            /\ authFile'.access = "at-new"
            /\ authFile'.refresh = "rt-new"
            /\ authFile'.expires > authFile.expires
            /\ authFile' = gw'.auth]_vars

\* The issuer answered the refresh of an expired record with 400.
C11_Witness ==
    /\ gw.pc = "done" /\ gw.error.message = MsgRefreshFailed(400)
    /\ authFile = StoredAuth("at-old", Epoch - TickMs, "acct-0")
    /\ lastSend.n = 0

\* C12: when no credential is persisted, the gateway call ends with the
\* not-connected error and sends no completion request to any candidate.
C12_NotConnectedSendsNothing ==
    [][(gw.pc = "read" /\ gw' # gw /\ authFile = NoAuth)
         => /\ gw'.pc = "done"
            /\ gw'.error.message = MsgNotConnected
            /\ gw'.result = <<>>
            /\ gw'.cand = 0
            /\ lastSend'.n = 0]_vars

C12_Witness ==
    /\ gw.pc = "done" /\ gw.error.message = MsgNotConnected
    /\ authFile = NoAuth /\ lastSend.n = 0 /\ gw.model = "gpt-4.1"

\* C13: the chain of the requested model starts with that model, continues
\* with the fixed list in its order without that model, and has no entry
\* twice.
Without(xs, m) == SelectSeq(xs, LAMBDA x : x # m)
C13_ChainHasNoDuplicates ==
    gw.pc # "idle" =>
        LET chain == fallbackModels(gw.model) IN
          /\ chain[1] = gw.model
          /\ Tail(chain) = Without(FixedModels, gw.model)
          /\ \A i, j \in 1..Len(chain) : chain[i] = chain[j] => i = j

\* A model of the fixed list was requested and a later candidate is tried.
C13_Witness ==
    /\ gw.pc = "attempt" /\ gw.model = "gpt-5.1-codex" /\ gw.cand = 4
    /\ lastSend.candidate = "gpt-5.1-codex-mini"

\* A step in which the attempt in flight fails with `status`.
Failed(status) ==
    /\ gw.pc \in {"attempt", "stream"}
    /\ gw'.lastError # gw.lastError
    /\ gw'.lastError.status = status
Chain == fallbackModels(gw.model)
\* A step in which a completion request is sent.
Sent == lastSend'.n = lastSend.n + 1
SentTo(cand, attempt) ==
    /\ Sent
    /\ gw'.pc = "attempt" /\ gw'.cand = cand /\ gw'.attempt = attempt
    /\ lastSend'.candidate = Chain[cand] /\ lastSend'.attempt = attempt

\* C14: after a 400 the next request of the call goes to the next candidate
\* of the chain as its first attempt (the call ends with that error when
\* there is none), and no later request of the call goes back to an earlier
\* candidate.
C14_BadRequestMovesOn ==
    [][/\ Failed(400) =>
            IF gw.cand < Len(Chain) THEN SentTo(gw.cand + 1, 0)
            ELSE gw'.pc = "done" /\ gw'.error.status = 400 /\ lastSend' = lastSend
       /\ (Sent /\ lastSend.n > 0) =>
            /\ gw'.cand >= gw.cand
            /\ lastSend'.candidate = lastSend.candidate <=> gw'.cand = gw.cand]_vars

\* The first candidate answered 400 to its first attempt, and the second
\* candidate is in its third attempt.
C14_Witness ==
    /\ gw.pc = "attempt" /\ gw.cand = 2 /\ gw.attempt = 2 /\ lastSend.n = 4
    /\ gw.lastError.status = 500

\* C15: after a 429, 500 or 503 the same candidate is attempted again while
\* it has had fewer than 3 attempts, no candidate gets a fourth attempt, and
\* an attempt that succeeds ends the call with its text and without error.
C15_TransientRetriesSameCandidate ==
    /\ [](gw.attempt < MaxAttempts /\ lastSend.attempt < MaxAttempts)
    /\ [][/\ \A st \in {429, 500, 503} : Failed(st) =>
                IF gw.attempt < 2 THEN SentTo(gw.cand, gw.attempt + 1)
                ELSE IF gw.cand < Len(Chain) THEN SentTo(gw.cand + 1, 0)
                ELSE gw'.pc = "done" /\ gw'.error.status = st
           /\ (gw.pc = "stream" /\ sse'.pc = "done") =>
                /\ gw'.pc = "done" /\ gw'.error = NoError /\ gw'.result = sse.output]_vars

\* The first candidate failed twice, the second time with 500, and its third
\* attempt returned the text.
C15_Witness ==
    /\ gw.pc = "done" /\ gw.error = NoError /\ gw.result = <<"a">>
    /\ gw.cand = 1 /\ gw.attempt = 2 /\ lastSend.n = 3 /\ gw.lastError.status = 500

\* C16: a failure with a status other than 400, 429, 500 and 503 ends the
\* call with that error, and a call that has ended sends nothing more.
C16_OtherStatusIsFatal ==
    [][/\ \A st \in CodexStatuses \ {0, 200, 400, 429, 500, 503} : Failed(st) =>
            /\ gw'.pc = "done"
            /\ gw'.error = gw'.lastError /\ gw'.error.status = st
            /\ gw'.error.of = lastSend.n
            /\ lastSend' = lastSend
       /\ gw.pc = "done" => (lastSend' = lastSend \/ gw'.pc = "read")]_vars

\* The first attempt on the first of six candidates answered 401.
C16_Witness ==
    /\ gw.pc = "done" /\ gw.error.status = 401 /\ gw.model = "gpt-4.1"
    /\ gw.cand = 1 /\ gw.attempt = 0 /\ lastSend.n = 1

\* C17: when an attempt succeeds the call ends in that step, its result is
\* the text decoded from that response's body, and the call sends no request
\* after it.
Succeeded == gw.pc \in {"attempt", "stream"} /\ gw'.pc = "done" /\ gw'.error = NoError
C17_FirstSuccessEnds ==
    [][/\ Succeeded =>
            /\ gw'.result = IF gw.pc = "stream"
                             THEN ReadChunk(SseStart(sse.body), sse.body).output ELSE <<>>
            /\ lastSend' = lastSend
            /\ gw'.cand = gw.cand /\ gw'.attempt = gw.attempt
       /\ gw'.pc \in {"attempt", "stream"} => gw'.result = <<>>
       /\ gw.pc = "done" => (lastSend' = lastSend /\ gw'.result = gw.result) \/ gw'.pc = "read"]_vars

\* The second attempt on the second of six candidates returned the text.
C17_Witness ==
    /\ gw.pc = "done" /\ gw.error = NoError /\ gw.result = <<"a">> /\ sse.pc = "done"
    /\ gw.model = "gpt-4.1" /\ gw.cand = 2 /\ gw.attempt = 1

\* C18: a call sends at most 3 requests per candidate of its chain, and when
\* the last candidate is given up without a fatal status the call ends with
\* the error of the last request it sent.
C18_BoundedAttemptsLastError ==
    /\ [](gw.pc # "idle" =>
            /\ lastSend.n <= 3 * Len(Chain)
            /\ gw.cand <= Len(Chain)
            /\ gw.attempt < 3)
    /\ [][(gw.pc \in {"attempt", "stream"} /\ gw'.pc = "done" /\ gw'.error # NoError
              /\ gw'.error.status \in {0, 400, 429, 500, 503})
             => /\ gw.cand = Len(Chain)
                /\ gw.attempt = 2 \/ gw'.error.status = 400
                /\ gw'.error.of = lastSend.n
                /\ gw'.error = gw'.lastError
                /\ lastSend' = lastSend]_vars

\* All six candidates of the chain failed three times each.
C18_Witness ==
    /\ gw.pc = "done" /\ gw.model = "gpt-4.1" /\ lastSend.n = 18
    /\ gw.error.status = 503 /\ gw.error.of = 18

\* C19: whatever the chunks, the output and the events decoded after each
\* read are those of reading the bytes delivered so far as one chunk; at the
\* end the output is that of the uncut body.
Delivered == SubSeq(sse.body, 1, Len(sse.body) - Len(sse.rest))
Uncut(body) == ReadChunk(SseStart(body), body)
C19_ChunkingDoesNotMatter ==
    /\ sse.pc = "reading" =>
          /\ sse.output = Uncut(Delivered).output
          /\ sse.events = Uncut(Delivered).events
    /\ sse.pc = "done" =>
          /\ sse.output = Uncut(sse.body).output
          /\ gw.result = Uncut(sse.body).output

\* The body of the "Hello" scenario was read in chunks of which one ended
\* between the two newlines of a separator.
C19_Witness ==
    /\ sse.pc = "done" /\ sse.body = HelloBody /\ "separator" \in sse.cuts
    /\ sse.output = <<"H", "e", "l", "l", "o">> /\ Len(sse.events) = 2

RECURSIVE ConcatDeltas(_)
ConcatDeltas(events) ==
    IF events = <<>> THEN <<>> ELSE Head(events).delta \o ConcatDeltas(Tail(events))
IsDone(e) == e.type = "response.output_text.done"
\* The text an event offers: its delta, its full text or its response-level
\* output text.
Offered(e) == IF e.delta # <<>> THEN e.delta ELSE IF e.text # <<>> THEN e.text ELSE e.output_text

\* C20 (as stated): a stream with a non-empty delta before any done event
\* yields the concatenation of its deltas.
C20_DeltasBeforeDoneAreTheOutput ==
    (sse.pc = "done" /\ \E i \in 1..Len(sse.events) :
                          /\ sse.events[i].delta # <<>>
                          /\ \A j \in 1..(i - 1) : ~IsDone(sse.events[j]))
      => sse.output = ConcatDeltas(sse.events)

\* C20 (amended): the output is the text offered by the first event that
\* offers a non-empty one (a delta, a done event's full text or a
\* response-level output text) followed by the deltas of the later events; a
\* stream whose first non-empty text is a delta yields the concatenation of
\* its deltas.
C20_FirstTextThenDeltas ==
    sse.pc \in {"reading", "done"} =>
      LET evs == sse.events
          firsts == {i \in 1..Len(evs) :
                        Offered(evs[i]) # <<>> /\ \A j \in 1..(i - 1) : Offered(evs[j]) = <<>>}
      IN  /\ firsts = {} => sse.output = <<>>
          /\ \A i \in firsts :
                /\ sse.output = Offered(evs[i]) \o ConcatDeltas(SubSeq(evs, i + 1, Len(evs)))
                /\ evs[i].delta # <<>> => sse.output = ConcatDeltas(evs)

\* Two deltas came before the done event that carries the full text.
C20_Witness ==
    /\ sse.pc = "done" /\ Len(sse.events) = 3 /\ IsDone(sse.events[3])
    /\ sse.events[3].text = <<"a", "b">> /\ sse.output = <<"a", "b">>

\* The blocks of a body, and the body without those of its terminated blocks
\* whose payload is not JSON.
Malformed(block) ==
    LET data == dataOf(Utf8Decode(<<>>, block).chars) IN
      /\ data # <<>> /\ data # <<DoneMarker>>
      /\ ~ParseJson(data).ok
RECURSIVE Rejoin(_)
Rejoin(blocks) ==
    IF Len(blocks) = 1 THEN blocks[1]
    ELSE IF Malformed(blocks[1]) THEN Rejoin(Tail(blocks))
    ELSE blocks[1] \o Sep \o Rejoin(Tail(blocks))
WithoutMalformed(body) == Rejoin(Split(body, 2))
HasMalformed(body) ==
    \E i \in 1..(Len(Split(body, 2)) - 1) : Malformed(Split(body, 2)[i])

\* C21: a stream ends without error, and its output is the output of the
\* same stream without its blocks whose payload is not JSON.
C21_MalformedBlocksAreSkipped ==
    sse.pc = "done" =>
        /\ gw.pc = "done" /\ gw.error = NoError
        /\ sse.output = Uncut(WithoutMalformed(sse.body)).output
        /\ gw.result = sse.output

\* A stream with two malformed blocks among its deltas was read in several
\* chunks to its end.
C21_Witness ==
    /\ sse.pc = "done" /\ HasMalformed(sse.body) /\ WithoutMalformed(sse.body) # sse.body
    /\ sse.output = <<"H", "e", "l", "l", "o">> /\ gw.error = NoError

\* C22: the accessor answers a stored record that has a refresh value and an
\* empty access value with a refresh exchange, and a stored record that is
\* present and unexpired by returning it as it is, with no exchange and no
\* write.
AccessorRuns == gw.pc = "read" /\ gw' # gw
C22_EmptyAccessIsRefreshed ==
    [][/\ (AccessorRuns /\ authFile.type = "oauth" /\ authFile.refresh # ""
              /\ authFile.access = "")
            => gw'.pc = "refresh"
       /\ (AccessorRuns /\ authFile.type = "oauth" /\ authFile.refresh # ""
              /\ authFile.access # "" /\ authFile.expires >= now)
            => /\ gw'.pc = "attempt" /\ gw'.auth = authFile
               /\ authFile' = authFile]_vars

\* C23: whenever the status is pending a session is recorded and its timer,
\* and no other, is armed and due within the authorization deadline.
C23_PendingHasSessionAndTimer ==
    Status = "pending" =>
        /\ pending # NoPending
        /\ timers # {}
        /\ \A t \in timers : t.id = pending.timeout /\ t.due <= now + OAUTH_TIMEOUT_MS

\* A redirect of the session was accepted and its token exchange is in
\* flight after the clock advanced.
C23_Witness ==
    /\ Status = "pending" /\ calls # EmptyBag /\ now > Epoch
    /\ pending # NoPending /\ timers # {}

\* C24: the first part of a disconnect changes nothing but the credential
\* file, which it removes or fails to remove; its second part, which follows
\* either way, changes nothing but the status, which becomes idle.
ContinueDisconnect == \E more \in BOOLEAN : ClearFinish(more)
C24_DisconnectFrame ==
    /\ [](last.op = "unlink" => ENABLED ContinueDisconnect)
    /\ [][/\ last'.op = "unlink" =>
               /\ authFile' \in {NoAuth, authFile}
               /\ UNCHANGED <<server, pending, timers, oauthState, calls, nextId, now>>
          /\ last'.op = "disconnect" =>
               /\ oauthState' = Idle
               /\ UNCHANGED <<server, pending, timers, authFile, calls, nextId, now>>]_vars

\* A disconnect during the second attempt failed to remove the credential
\* of the first and set the status idle.
C24_Witness ==
    /\ last.op = "disconnect" /\ Status = "idle" /\ authFile # NoAuth
    /\ pending # NoPending /\ timers # {} /\ server = "listening"

====
